---- MODULE Spec2Model ----
(***************************************************************************)
(* Junk Mover (src/Junk_Mover/junk_mover.py): one run of main() against    *)
(* the remote playlist service, followed by at most one rerun.             *)
(*                                                                         *)
(* The remote service is the environment.  Its state is the listing of    *)
(* playlists; a request succeeds with the documented effect (adding       *)
(* appends entries, removing by URI deletes every entry of the playlist   *)
(* that carries the URI) or spotify_request raises and the run aborts,    *)
(* the request having had no effect or its response having been lost.     *)
(*                                                                         *)
(* Environment assumption: the configured source playlist is not itself   *)
(* named "<YY> Junk Drawer", so a destination is never the source.         *)
(***************************************************************************)
EXTENDS Integers, Sequences, FiniteSets, TLC

VARIABLES
    playlists,      \* remote: listing of playlists, a playlist's id is its position
    duration_days,  \* JUNK_MOVER_DURATION_DAYS
    pc,             \* position of main()
    rerun,          \* TRUE once the second run has started
    source_id,      \* source_playlist_id
    offset,         \* params["offset"] of paginate_playlist_items
    candidates,     \* candidates
    buckets,        \* buckets, in insertion order of the keys
    bidx,           \* position of the loop over buckets.items()
    target,         \* target_playlist_id
    ci,             \* position of the loop over chunked(uris, ...)
    total_moved,    \* total_moved
    log,            \* history: the requests of the current run and their outcome
    seen,           \* history: the items yielded by the enumeration of this run
    pl0,            \* history: the playlists as they were when this run started
    ensured,        \* history: the completed ensure_junk_drawer_playlist calls
    prev,           \* history: what the first run left, once the rerun has started
    callers         \* the concurrent callers of ensure_junk_drawer_playlist, if any

vars == <<playlists, duration_days, pc, rerun, source_id, offset, candidates,
          buckets, bidx, target, ci, total_moved, log, seen, pl0, ensured, prev, callers>>

----------------------------------------------------------------------------
(* Bounds.  TrackBatch and ItemPage stand for the literal 100 of the code  *)
(* (batch size of add/remove, page size of the item listing), scaled down  *)
(* so that several batches and pages occur with MaxItems entries.          *)
MaxItems == 3
TrackBatch == 2
ItemPage == 2

----------------------------------------------------------------------------
(* Values *)

Me == "me"
Other == "other"
SourceName == "Inbox"

\* A timestamp is a year, a day of the year and a second of the day (UTC);
\* a date is a year and a day of the year.
Today == [y |-> 2024, d |-> 1]
NowTs == [y |-> 2024, d |-> 1, s |-> 43200]

None == <<>>
Some(v) == <<v>>

\* The entries a source playlist is drawn from: the same track added in two
\* different years (the later one at the last second of today), a track
\* added in 2005, an entry whose track is null and one without added_at.
ItemPool ==
    { [uri |-> "a", added_at |-> Some([y |-> 2023, d |-> 365, s |-> 0])],
      [uri |-> "a", added_at |-> Some([y |-> 2024, d |-> 1, s |-> 86399])],
      [uri |-> "b", added_at |-> Some([y |-> 2005, d |-> 60, s |-> 30])],
      [uri |-> "",  added_at |-> Some([y |-> 2023, d |-> 365, s |-> 0])],
      [uri |-> "b", added_at |-> None] }

RECURSIVE SeqsUpTo(_, _)
SeqsUpTo(S, n) ==
    IF n = 0 THEN {<<>>}
    ELSE LET shorter == SeqsUpTo(S, n - 1)
         IN shorter \cup {Append(q, x) : q \in {r \in shorter : Len(r) = n - 1}, x \in S}

NoDescription == [kind |-> "initial", key |-> "", moved |-> 0]

Playlist(name, owner, desc, tracks) ==
    [name |-> name, owner |-> owner, description |-> desc, tracks |-> tracks]

\* Playlists that exist before the first run, beside the source: none, or a
\* "23 Junk Drawer" owned by somebody else and a "05 Junk Drawer" of the user.
Preexisting ==
    { <<>>,
      << Playlist("23 Junk Drawer", Other, NoDescription, <<>>),
         Playlist("05 Junk Drawer", Me, NoDescription,
                  <<[uri |-> "c", added_at |-> Some([y |-> 2024, d |-> 1, s |-> 0])]>>) >> }

Range(q) == {q[i] : i \in 1..Len(q)}
Last(q) == q[Len(q)]

----------------------------------------------------------------------------
(* Pure functions of junk_mover.py *)

\* Python truthiness of item.get("added_at") and of track.get("uri")
TruthyOpt(opt) == opt # None
TruthyStr(str) == str # ""

IsLeap(y) == (y % 4 = 0 /\ y % 100 # 0) \/ y % 400 = 0
DaysInYear(y) == IF IsLeap(y) THEN 366 ELSE 365

\* added_date < cutoff_date, the comparison without the equal dates
DateLT(a, b) == a.y < b.y \/ (a.y = b.y /\ a.d < b.d)

\* added_date <= cutoff_date
DateLE(a, b) == a.y < b.y \/ (a.y = b.y /\ a.d <= b.d)

RECURSIVE DateMinusDays(_, _)
DateMinusDays(date, n) ==
    IF n = 0 THEN date
    ELSE IF date.d > 1 THEN DateMinusDays([y |-> date.y, d |-> date.d - 1], n - 1)
    ELSE DateMinusDays([y |-> date.y - 1, d |-> DaysInYear(date.y - 1)], n - 1)

cutoff_date == DateMinusDays(Today, duration_days)

iso_to_date(iso_ts) == [y |-> iso_ts.y, d |-> iso_ts.d]

\* The loop body of main() over one yielded item: what it appends to candidates.
Candidate(item) ==
    IF ~(TruthyOpt(item.added_at) /\ TruthyStr(item.uri)) THEN <<>>
    ELSE LET added_date == iso_to_date(item.added_at[1])
         IN IF DateLE(added_date, cutoff_date)
            THEN <<[uri |-> item.uri, added_date |-> added_date]>>
            ELSE <<>>

RECURSIVE Collect(_)
Collect(items) ==
    IF items = <<>> THEN <<>>
    ELSE Candidate(Head(items)) \o Collect(Tail(items))

\* f"{n}", the number without the padding
FormatD(n) == ToString(n)

\* f"{n:02d}"
Format02d(n) ==
    LET s == ToString(n) IN IF Len(s) < 2 THEN "0" \o s ELSE s

year_suffix(added_date) == Format02d(added_date.y % 100)

KeyIndex(bs, key) ==
    LET hits == {i \in 1..Len(bs) : bs[i].key = key}
    IN IF hits = {} THEN 0 ELSE CHOOSE i \in hits : TRUE

\* buckets[year_suffix] = [(uri, added_date)] on a new list every time
AlwaysNewList(bs, key, t) == Append(bs, [key |-> key, tracks |-> <<t>>])

\* buckets.setdefault(year_suffix, []).append((uri, added_date))
SetDefaultAppend(bs, key, t) ==
    LET i == KeyIndex(bs, key)
    IN IF i = 0 THEN Append(bs, [key |-> key, tracks |-> <<t>>])
       ELSE [bs EXCEPT ![i].tracks = Append(@, t)]

RECURSIVE GroupInto(_, _)
GroupInto(bs, tracks) ==
    IF tracks = <<>> THEN bs
    ELSE GroupInto(SetDefaultAppend(bs, year_suffix(Head(tracks).added_date), Head(tracks)),
                   Tail(tracks))

group_tracks_by_year_suffix(tracks) == GroupInto(<<>>, tracks)

Min(a, b) == IF a < b THEN a ELSE b

\* for i in range(0, len(seq), size): yield seq[i : i + size]
RECURSIVE ChunkedFrom(_, _, _)
ChunkedFrom(seq, size, i) ==
    IF i >= Len(seq) THEN <<>>
    ELSE <<SubSeq(seq, i + 1, Min(i + size, Len(seq)))>> \o ChunkedFrom(seq, size, i + size)

\* Slices one element too long: seq[i : i + size + 1], stepping alike.
chunkedTooLong(seq, size) == ChunkedFrom(seq, size + 1, 0)

chunked(seq, size) == ChunkedFrom(seq, size, 0)

playlist_name(key) == key \o " Junk Drawer"

BaseDescription(key) == [kind |-> "base", key |-> key, moved |-> 0]
DestDescription(key, n) == [kind |-> "junk", key |-> key, moved |-> n]
SourceDescription(n) == [kind |-> "source", key |-> "", moved |-> n]

\* First playlist of the listing with that name and owner, 0 for None.
find_playlist_by_name_owner(pls, owner_id, target_name) ==
    LET hits == {i \in 1..Len(pls) : pls[i].name = target_name /\ pls[i].owner = owner_id}
    IN IF hits = {} THEN 0 ELSE CHOOSE i \in hits : \A j \in hits : i <= j

Uris(tracks) == [i \in 1..Len(tracks) |-> tracks[i].uri]

\* uris = [uri for uri, _ in tracks] of the bucket in hand
CurUris == Uris(buckets[bidx].tracks)
CurKey == buckets[bidx].key
CurChunks == chunked(CurUris, TrackBatch)

----------------------------------------------------------------------------
(* Effects of the requests on the remote playlists *)

\* POST /playlists/{id}/tracks {"uris": chunk}
AddEffect(tracks, chunk) ==
    tracks \o [i \in 1..Len(chunk) |-> [uri |-> chunk[i], added_at |-> Some(NowTs)]]

\* DELETE /playlists/{id}/tracks {"tracks": [{"uri": uri} ...]}
RemoveEffect(tracks, chunk) ==
    SelectSeq(tracks, LAMBDA it : it.uri \notin Range(chunk))

\* A loop that leaves after its first page.
HasNextNever(tracks, off) == FALSE

\* GET /playlists/{id}/tracks?limit=..&offset=..
Page(tracks, off) == SubSeq(tracks, off + 1, Min(off + ItemPage, Len(tracks)))
HasNext(tracks, off) == off + ItemPage < Len(tracks)

\* A creation that returns the playlist of that name when the user has one.
CreatedUnlessThere(pls, key) ==
    IF find_playlist_by_name_owner(pls, Me, playlist_name(key)) # 0 THEN pls
    ELSE Append(pls, Playlist(playlist_name(key), Me, BaseDescription(key), <<>>))

\* POST /users/{user_id}/playlists {"name": name, "description": ..., "public": false}
Created(pls, key) ==
    Append(pls, Playlist(playlist_name(key), Me, BaseDescription(key), <<>>))

\* The playlists after the request of a mutating phase of main() has taken effect.
Applied(phase) ==
    CASE phase = "ensure_create" -> Created(playlists, CurKey)
      [] phase = "add" ->
            [playlists EXCEPT ![target].tracks = AddEffect(@, CurChunks[ci])]
      [] phase = "remove" ->
            [playlists EXCEPT ![source_id].tracks = RemoveEffect(@, CurChunks[ci])]
      [] phase = "describe_dest" ->
            [playlists EXCEPT ![target].description = DestDescription(CurKey, Len(CurUris))]
      [] phase = "describe_source" ->
            [playlists EXCEPT ![source_id].description = SourceDescription(total_moved)]

----------------------------------------------------------------------------
(* The run *)

Init ==
    /\ \E pre \in Preexisting, items \in SeqsUpTo(ItemPool, MaxItems) :
          playlists = Append(pre, Playlist(SourceName, Me, NoDescription, items))
    /\ duration_days \in {0, 1}
    /\ pc = "start"
    /\ rerun = FALSE
    /\ source_id = 0
    /\ offset = 0
    /\ candidates = <<>>
    /\ buckets = <<>>
    /\ bidx = 0
    /\ target = 0
    /\ ci = 0
    /\ total_moved = 0
    /\ log = <<>>
    /\ seen = <<>>
    /\ pl0 = playlists
    /\ ensured = <<>>
    /\ prev = None
    /\ callers = <<>>

Req(op, pl, uris) == [op |-> op, pl |-> pl, uris |-> uris, key |-> "", n |-> 0]

\* main() up to the source lookup: token, profile, listing of the playlists.
Begin ==
    LET found == find_playlist_by_name_owner(playlists, Me, SourceName)
    IN /\ source_id' = found
       /\ offset' = 0
       /\ candidates' = <<>>
       /\ buckets' = <<>>
       /\ bidx' = 0
       /\ target' = 0
       /\ ci' = 0
       /\ total_moved' = 0
       /\ seen' = <<>>
       /\ pl0' = playlists
       /\ log' = <<Req("token", 0, <<>>), Req("me", 0, <<>>), Req("list", 0, <<>>)>>
       /\ pc' = IF found = 0 THEN "aborted" ELSE "enumerate"
       /\ UNCHANGED <<playlists, duration_days, callers, ensured>>

StartRun ==
    /\ pc = "start"
    /\ Begin
    /\ UNCHANGED <<rerun, prev>>

\* The next scheduled run, after the first one ended either way.
Rerun ==
    /\ pc \in {"done", "aborted"}
    /\ ~rerun
    /\ rerun' = TRUE
    /\ prev' = Some([pc |-> pc, log |-> log, buckets |-> buckets, bidx |-> bidx,
                     candidates |-> candidates, playlists |-> playlists])
    /\ Begin

\* main() without the early return on an empty candidates list.
AfterEnumerationNoReturn(cands) == IF cands = <<>> THEN "describe_source" ELSE "ensure_find"

\* The phase main() enters when the enumeration is exhausted.
AfterEnumeration(cands) == IF cands = <<>> THEN "done" ELSE "ensure_find"

\* One page of paginate_playlist_items and the loop of main() over its items.
FetchPage ==
    /\ pc = "enumerate"
    /\ LET tracks == playlists[source_id].tracks
           page == Page(tracks, offset)
           cands == candidates \o Collect(page)
       IN /\ seen' = seen \o page
          /\ candidates' = cands
          /\ log' = Append(log, [Req("items", source_id, <<>>) EXCEPT !.n = offset])
          /\ IF HasNext(tracks, offset)
             THEN /\ offset' = offset + ItemPage
                  /\ UNCHANGED <<pc, buckets, bidx>>
             ELSE /\ offset' = offset
                  /\ pc' = AfterEnumeration(cands)
                  /\ buckets' = IF cands = <<>> THEN <<>> ELSE group_tracks_by_year_suffix(cands)
                  /\ bidx' = IF cands = <<>> THEN 0 ELSE 1
    /\ UNCHANGED <<playlists, duration_days, callers, rerun, source_id, target, ci, total_moved,
                   pl0, ensured, prev>>

\* The loop body of main() with the two moving calls exchanged.
PhaseAfterSwapped(phase) ==
    CASE phase = "ensure" -> "remove"
      [] phase = "remove" -> "add"
      [] phase = "add" -> "describe_dest"

\* The loop body of main() without the call of remove_tracks_from_playlist.
PhaseAfterNoRemove(phase) ==
    CASE phase = "ensure" -> "add"
      [] phase = "add" -> "describe_dest"
      [] phase = "remove" -> "describe_dest"

\* The order of the calls in the loop body of main(): ensure, add, remove, describe.
PhaseAfter(phase) ==
    CASE phase = "ensure" -> "add"
      [] phase = "add" -> "remove"
      [] phase = "remove" -> "describe_dest"

\* A lookup that compares the owner with something that is not the user's id.
ExistingByDisplayName(name) == find_playlist_by_name_owner(playlists, "Me (display name)", name)

\* existing = find_playlist_by_name_owner(access_token, user_id, name)
Existing(name) == find_playlist_by_name_owner(playlists, Me, name)

\* ensure_junk_drawer_playlist, the lookup.
EnsureFind ==
    /\ pc = "ensure_find"
    /\ LET existing == Existing(playlist_name(CurKey))
       IN /\ log' = Append(log, [Req("list", 0, <<>>) EXCEPT !.key = CurKey])
          /\ IF existing # 0
             THEN /\ target' = existing
                  /\ ensured' = Append(ensured, [name |-> playlist_name(CurKey),
                                                 id |-> existing, created |-> FALSE])
                  /\ pc' = PhaseAfter("ensure")
                  /\ ci' = 1
             ELSE /\ pc' = "ensure_create"
                  /\ UNCHANGED <<target, ensured, ci>>
    /\ UNCHANGED <<playlists, duration_days, callers, rerun, source_id, offset, candidates, buckets,
                   bidx, total_moved, seen, pl0, prev>>

\* ensure_junk_drawer_playlist, the creation.
EnsureCreate ==
    /\ pc = "ensure_create"
    /\ playlists' = Applied("ensure_create")
    /\ target' = Len(playlists) + 1
    /\ ensured' = Append(ensured, [name |-> playlist_name(CurKey),
                                   id |-> Len(playlists) + 1, created |-> TRUE])
    /\ log' = Append(log, [Req("create", Len(playlists) + 1, <<>>) EXCEPT !.key = CurKey])
    /\ pc' = PhaseAfter("ensure")
    /\ ci' = 1
    /\ UNCHANGED <<duration_days, callers, rerun, source_id, offset, candidates, buckets, bidx,
                   total_moved, seen, pl0, prev>>

\* add_tracks_to_playlist, one batch.
AddChunk ==
    /\ pc = "add"
    /\ playlists' = Applied("add")
    /\ log' = Append(log, [Req("add", target, CurChunks[ci]) EXCEPT !.key = CurKey])
    /\ IF ci < Len(CurChunks)
       THEN ci' = ci + 1 /\ pc' = pc
       ELSE ci' = 1 /\ pc' = PhaseAfter("add")
    /\ UNCHANGED <<duration_days, callers, rerun, source_id, offset, candidates, buckets, bidx,
                   target, total_moved, seen, pl0, ensured, prev>>

\* remove_tracks_from_playlist, one batch.
RemoveChunk ==
    /\ pc = "remove"
    /\ playlists' = Applied("remove")
    /\ log' = Append(log, [Req("remove", source_id, CurChunks[ci]) EXCEPT !.key = CurKey])
    /\ IF ci < Len(CurChunks)
       THEN ci' = ci + 1 /\ pc' = pc /\ UNCHANGED total_moved
       ELSE ci' = 1 /\ pc' = PhaseAfter("remove") /\ total_moved' = total_moved + Len(CurUris)
    /\ UNCHANGED <<duration_days, callers, rerun, source_id, offset, candidates, buckets, bidx,
                   target, seen, pl0, ensured, prev>>

\* update_playlist_description of the destination, end of the loop body.
DescribeDest ==
    /\ pc = "describe_dest"
    /\ playlists' = Applied("describe_dest")
    /\ log' = Append(log, [Req("describe", target, <<>>) EXCEPT
                              !.key = CurKey, !.n = Len(CurUris)])
    /\ IF bidx < Len(buckets)
       THEN bidx' = bidx + 1 /\ pc' = "ensure_find"
       ELSE bidx' = bidx /\ pc' = "describe_source"
    /\ UNCHANGED <<duration_days, callers, rerun, source_id, offset, candidates, buckets, target,
                   ci, total_moved, seen, pl0, ensured, prev>>

\* update_playlist_description of the source, the last statement of main().
DescribeSource ==
    /\ pc = "describe_source"
    /\ playlists' = Applied("describe_source")
    /\ log' = Append(log, [Req("describe", source_id, <<>>) EXCEPT !.n = total_moved])
    /\ pc' = "done"
    /\ UNCHANGED <<duration_days, callers, rerun, source_id, offset, candidates, buckets, bidx,
                   target, ci, total_moved, seen, pl0, ensured, prev>>

RequestPhases ==
    {"start", "enumerate", "ensure_find", "ensure_create", "add", "remove",
     "describe_dest", "describe_source"}

\* A caller that catches the error and goes on.
OnErrorSwallowed(phase) == IF phase = "start" THEN "aborted" ELSE phase

\* What main() does with the RuntimeError of spotify_request: nothing, it ends the run.
OnError(phase) == "aborted"

MutatingPhases == {"ensure_create", "add", "remove", "describe_dest", "describe_source"}

\* spotify_request raises on the response (transport error while reading it, a body
\* that is not JSON) of a request the service has carried out.
ResponseLost ==
    /\ pc \in MutatingPhases
    /\ playlists' = Applied(pc)
    /\ pc' = OnError(pc)
    /\ log' = Append(log, [Req("fail", 0, <<>>) EXCEPT !.key = pc, !.n = bidx])
    /\ UNCHANGED <<duration_days, callers, rerun, source_id, offset, candidates, buckets,
                   bidx, target, ci, total_moved, seen, pl0, ensured, prev>>

\* spotify_request raises: the request had no effect.
RequestFails ==
    /\ pc \in RequestPhases
    /\ pc' = OnError(pc)
    /\ log' = Append(log, [Req("fail", 0, <<>>) EXCEPT !.key = pc, !.n = bidx])
    /\ UNCHANGED <<playlists, duration_days, callers, rerun, source_id, offset, candidates, buckets,
                   bidx, target, ci, total_moved, seen, pl0, ensured, prev>>

Next ==
    \/ StartRun
    \/ Rerun
    \/ FetchPage
    \/ EnsureFind
    \/ EnsureCreate
    \/ AddChunk
    \/ RemoveChunk
    \/ DescribeDest
    \/ DescribeSource
    \/ RequestFails
    \/ ResponseLost

Spec == Init /\ [][Next]_vars

----------------------------------------------------------------------------
(* Two overlapping callers of ensure_junk_drawer_playlist (two runs of     *)
(* main() started by overlapping schedules), each at its own position,     *)
(* against the same remote playlists.  Nothing orders their requests.      *)

CallerIds == {"first", "second"}
RaceKeys == {"05", "23", "24"}

\* The variables of the single run, which the concurrent callers leave alone.
runVars == <<duration_days, pc, rerun, source_id, offset, candidates, buckets, bidx,
             target, ci, total_moved, log, seen, pl0, ensured, prev>>

Call(key) == [phase |-> "find", key |-> key, id |-> 0, created |-> FALSE]

RaceInit ==
    /\ \E pre \in Preexisting :
          playlists = Append(pre, Playlist(SourceName, Me, NoDescription, <<>>))
    /\ callers \in [CallerIds -> {Call(k) : k \in RaceKeys}]
    /\ duration_days = 0
    /\ pc = "start"
    /\ rerun = FALSE
    /\ source_id = 0
    /\ offset = 0
    /\ candidates = <<>>
    /\ buckets = <<>>
    /\ bidx = 0
    /\ target = 0
    /\ ci = 0
    /\ total_moved = 0
    /\ log = <<>>
    /\ seen = <<>>
    /\ pl0 = playlists
    /\ ensured = <<>>
    /\ prev = None

\* existing = find_playlist_by_name_owner(...); if existing: return existing["id"]
CallerFind(c) ==
    /\ callers[c].phase = "find"
    /\ LET existing == Existing(playlist_name(callers[c].key))
       IN callers' = IF existing # 0
                     THEN [callers EXCEPT ![c].phase = "returned", ![c].id = existing]
                     ELSE [callers EXCEPT ![c].phase = "create"]
    /\ UNCHANGED playlists
    /\ UNCHANGED runVars

\* created = spotify_request("POST", ...); return created["id"]
CallerCreate(c) ==
    /\ callers[c].phase = "create"
    /\ playlists' = Created(playlists, callers[c].key)
    /\ callers' = [callers EXCEPT ![c].phase = "returned",
                                  ![c].id = Len(playlists) + 1,
                                  ![c].created = TRUE]
    /\ UNCHANGED runVars

\* spotify_request raises in the caller: the request had no effect.
CallerFails(c) ==
    /\ callers[c].phase \in {"find", "create"}
    /\ callers' = [callers EXCEPT ![c].phase = OnError(callers[c].phase)]
    /\ UNCHANGED playlists
    /\ UNCHANGED runVars

\* spotify_request raises on the response of a creation the service carried out.
CallerResponseLost(c) ==
    /\ callers[c].phase = "create"
    /\ playlists' = Created(playlists, callers[c].key)
    /\ callers' = [callers EXCEPT ![c].phase = OnError(callers[c].phase),
                                  ![c].created = TRUE]
    /\ UNCHANGED runVars

RaceNext ==
    \/ \E c \in CallerIds : CallerFind(c)
    \/ \E c \in CallerIds : CallerCreate(c)
    \/ \E c \in CallerIds : CallerFails(c)
    \/ \E c \in CallerIds : CallerResponseLost(c)

RaceSpec == RaceInit /\ [][RaceNext]_vars

----------------------------------------------------------------------------
(* Vocabulary of the properties *)

UriSet(tracks) == {tracks[i].uri : i \in 1..Len(tracks)}

RECURSIVE Flatten(_)
Flatten(qs) == IF qs = <<>> THEN <<>> ELSE Head(qs) \o Flatten(Tail(qs))

RECURSIVE SumLen(_)
SumLen(qs) == IF qs = <<>> THEN 0 ELSE Len(Head(qs)) + SumLen(Tail(qs))

UrisOf(entries) == [i \in 1..Len(entries) |-> entries[i].uris]

\* The successful requests `op` of bucket `key` among the first n entries of a log.
Sent(lg, n, op, key) ==
    SelectSeq(SubSeq(lg, 1, n), LAMBDA e : e.op = op /\ e.key = key)

Mutating == {"create", "add", "remove", "describe"}

Started == source_id # 0
SourceNow == playlists[source_id]
SourceThen == pl0[source_id]

\* The destination of bucket `key` as the service lists it, 0 if there is none.
DestOf(key) == find_playlist_by_name_owner(playlists, Me, playlist_name(key))

FailedIn(phase) == log # <<>> /\ Last(log).op = "fail" /\ Last(log).key = phase

\* The enumeration of the source has been consumed to its end.
EnumerationOver ==
    /\ Started
    /\ pc \notin {"start", "enumerate"}
    /\ ~(FailedIn("start") \/ FailedIn("enumerate"))

\* The date of an item's added-at is on or before the cutoff, by day numbers.
Ordinal(date) == date.y * 366 + date.d
DateOnOrBefore(item) ==
    item.added_at # None /\ Ordinal(iso_to_date(item.added_at[1])) <= Ordinal(cutoff_date)
AsCandidate(item) == [uri |-> item.uri, added_date |-> iso_to_date(item.added_at[1])]
AsCandidates(items) == [i \in 1..Len(items) |-> AsCandidate(items[i])]

\* The item has an added-at and a track URI.
HasBoth(item) == item.added_at # None /\ item.uri # ""

\* A number below 100 in two decimal digits.
TwoDigits(n) == ToString(n \div 10) \o ToString(n % 10)

\* The number of entries playlist p had when the run started.
LenThen(p) == IF p <= Len(pl0) THEN Len(pl0[p].tracks) ELSE 0

\* ceil(n / s)
Ceil(n, s) == (n + s - 1) \div s

\* What chunked owes for one list and one size.
ChunkedRight(seq, size) ==
    LET c == chunked(seq, size)
    IN /\ Len(c) = Ceil(Len(seq), size)
       /\ \A k \in 1..Len(c) : 1 <= Len(c[k]) /\ Len(c[k]) <= size
       /\ Flatten(c) = seq

\* The lists of URIs the run holds.
UriLists ==
    {Uris(candidates)} \cup {Uris(buckets[i].tracks) : i \in 1..Len(buckets)}
       \cup (IF Started THEN {Uris(SourceNow.tracks)} ELSE {})

\* The call `op` of bucket i has returned.
Returned(op, i) ==
    \/ i < bidx
    \/ /\ i = bidx
       /\ LET later == IF op = "add"
                       THEN {"remove", "describe_dest", "describe_source"}
                       ELSE {"describe_dest", "describe_source"}
          IN pc \in later \cup {"done"} \/ \E ph \in later : FailedIn(ph)

\* The item has an added-at whose date is after the cutoff, by day numbers.
AddedAfterCutoff(item) ==
    item.added_at # None /\ Ordinal(iso_to_date(item.added_at[1])) > Ordinal(cutoff_date)

\* The playlists of a listing that the user owns under the name of bucket `key`.
Named(pls, key) ==
    {p \in 1..Len(pls) : pls[p].name = playlist_name(key) /\ pls[p].owner = Me}

\* The URIs a log shows added and later removed.
MovedBy(lg) ==
    {u \in UNION {Range(lg[i].uris) : i \in 1..Len(lg)} :
        \E i, j \in 1..Len(lg) :
           /\ i < j
           /\ lg[i].op = "add" /\ u \in Range(lg[i].uris)
           /\ lg[j].op = "remove" /\ u \in Range(lg[j].uris)}

----------------------------------------------------------------------------
----------------------------------------------------------------------------
----------------------------------------------------------------------------
(* C3: a run whose enumeration ended with no candidate is done, has failed *)
(* nowhere, has sent no creating, adding, removing or describing request   *)
(* and has left every playlist as it was.                                  *)
C3_NothingToMove ==
    (EnumerationOver /\ candidates = <<>>) =>
       /\ pc = "done"
       /\ \A e \in Range(log) : e.op \notin Mutating \cup {"fail"}
       /\ playlists = pl0

\* A run over a source that holds entries, none of them eligible, has ended.
C3_Witness ==
    /\ EnumerationOver
    /\ candidates = <<>>
    /\ pc = "done"
    /\ seen # <<>>

----------------------------------------------------------------------------
(* C4, as claimed: every enumerated item is selected if and only if the    *)
(* date of its added-at is on or before the cutoff.                        *)
C4_SelectedIffOnOrBefore ==
    candidates = AsCandidates(SelectSeq(seen, DateOnOrBefore))

(* C4, amended: the enumerated items that have an added-at and a track URI *)
(* are selected if and only if the date of their added-at is on or before  *)
(* the cutoff, the others never; with day count 0 the cutoff is today.     *)
C4_SelectedIffOnOrBeforeWithUri ==
    /\ candidates = AsCandidates(SelectSeq(seen, LAMBDA it : HasBoth(it) /\ DateOnOrBefore(it)))
    /\ duration_days = 0 => cutoff_date = Today

\* With day count 0 an entry added at the last second of today has been selected,
\* next to an entry of an earlier year.
C4_Witness ==
    /\ duration_days = 0
    /\ \E i \in 1..Len(seen) :
          HasBoth(seen[i]) /\ iso_to_date(seen[i].added_at[1]) = Today
             /\ AsCandidate(seen[i]) \in Range(candidates)
    /\ \E c \in Range(candidates) : c.added_date.y < Today.y

----------------------------------------------------------------------------
(* C5: the key of the bucket of every selected track is the year of its    *)
(* added date modulo 100 written with exactly two digits, every selected   *)
(* track is in the bucket of that key, and the add requests of a bucket go *)
(* to the playlist named "<key> Junk Drawer".                              *)
C5_BucketKeyAndDestination ==
    /\ \A i \in 1..Len(buckets) : \A t \in Range(buckets[i].tracks) :
          /\ buckets[i].key = TwoDigits(t.added_date.y % 100)
          /\ Len(buckets[i].key) = 2
    /\ (EnumerationOver /\ candidates # <<>>) =>
          \A c \in Range(candidates) : \E i \in 1..Len(buckets) :
             buckets[i].key = TwoDigits(c.added_date.y % 100) /\ c \in Range(buckets[i].tracks)
    /\ \A e \in Range(log) :
          e.op = "add" =>
             /\ playlists[e.pl].name = e.key \o " Junk Drawer"
             /\ \E i \in 1..Len(buckets) :
                   /\ buckets[i].key = e.key
                   /\ Range(e.uris) \subseteq Range(Uris(buckets[i].tracks))

\* The track added in 2005 has been appended to "05 Junk Drawer".
C5_Witness ==
    \E e \in Range(log) :
       /\ e.op = "add" /\ e.key = "05" /\ "b" \in Range(e.uris)
       /\ playlists[e.pl].name = "05 Junk Drawer"
       /\ "b" \in UriSet(playlists[e.pl].tracks)

----------------------------------------------------------------------------
(* C6, as claimed: no track URI is in two buckets nor appended to two      *)
(* destinations.                                                           *)
C6_UriInOneBucket ==
    /\ \A i, j \in 1..Len(buckets) :
          i # j => Range(Uris(buckets[i].tracks)) \cap Range(Uris(buckets[j].tracks)) = {}
    /\ \A e, f \in Range(log) :
          (e.op = "add" /\ f.op = "add" /\ Range(e.uris) \cap Range(f.uris) # {})
             => e.pl = f.pl

(* C6, amended: the buckets partition the selected entries by the year     *)
(* suffix of their added date: keys are pairwise distinct, the bucket of a *)
(* key holds exactly the candidates of that key, in order, and every       *)
(* bucket is appended to one destination, different from the others'.      *)
C6_EntryInOneBucket ==
    /\ \A i, j \in 1..Len(buckets) : i # j => buckets[i].key # buckets[j].key
    /\ \A i \in 1..Len(buckets) :
          buckets[i].tracks =
             SelectSeq(candidates,
                       LAMBDA c : TwoDigits(c.added_date.y % 100) = buckets[i].key)
    /\ \A e, f \in Range(log) :
          (e.op = "add" /\ f.op = "add") => (e.pl = f.pl <=> e.key = f.key)

\* The same URI, selected twice with added dates of two years, has been
\* appended to two junk drawers.
C6_Witness ==
    \E e, f \in Range(log) :
       /\ e.op = "add" /\ f.op = "add"
       /\ e.key = "23" /\ f.key = "24"
       /\ "a" \in Range(e.uris) \cap Range(f.uris)
       /\ e.pl # f.pl

----------------------------------------------------------------------------
(* C7: of two completed calls of ensure_junk_drawer_playlist with the same *)
(* name, the second creates nothing and returns the id the first returned; *)
(* the playlist returned has that name and the user as owner, and no other *)
(* playlist of the user has it.                                            *)
C7_EnsureTwice ==
    /\ \A i, j \in 1..Len(ensured) :
          (i < j /\ ensured[i].name = ensured[j].name) =>
             ensured[j].id = ensured[i].id /\ ~ensured[j].created
    /\ \A i \in 1..Len(ensured) :
          {p \in 1..Len(playlists) :
              playlists[p].name = ensured[i].name /\ playlists[p].owner = Me}
             = {ensured[i].id}

\* The first run created a junk drawer, the rerun has asked for it again.
C7_Witness ==
    \E i, j \in 1..Len(ensured) :
       /\ i < j
       /\ ensured[i].name = ensured[j].name
       /\ ensured[i].created
       /\ ensured[j].id = ensured[i].id

----------------------------------------------------------------------------
\* After a run without failure: every destination has grown by the size of its
\* bucket and its description carries that size.
C8_DestinationCounts ==
    (pc = "done" /\ candidates # <<>>) =>
       \A i \in 1..Len(buckets) :
          LET d == DestOf(buckets[i].key)
          IN /\ d # 0
             /\ Len(playlists[d].tracks) - LenThen(d) = Len(buckets[i].tracks)
             /\ playlists[d].description = DestDescription(buckets[i].key, Len(buckets[i].tracks))

\* After a run without failure: the bucket sizes add up to the number of
\* candidates, which the description of the source carries.
C8_SourceDescriptionCount ==
    (pc = "done" /\ candidates # <<>>) =>
       /\ SumLen([i \in 1..Len(buckets) |-> buckets[i].tracks]) = Len(candidates)
       /\ SourceNow.description = SourceDescription(Len(candidates))

\* After a run without failure: the source has shrunk by the number of candidates.
C8_SourceRemovedCount ==
    (pc = "done" /\ candidates # <<>>) =>
       Len(SourceThen.tracks) - Len(SourceNow.tracks) = Len(candidates)

(* C8, as claimed: when a run is done without a failure, every destination *)
(* has grown by the size of its bucket and its description carries that    *)
(* size; the source has shrunk by the number of candidates and its         *)
(* description carries that number.                                        *)
C8_CountsAfterCleanRun ==
    C8_DestinationCounts /\ C8_SourceDescriptionCount /\ C8_SourceRemovedCount

----------------------------------------------------------------------------
(* C9: chunked cuts a list of N URIs into ceil(N/S) consecutive slices of  *)
(* 1 to S elements that concatenate to the list, for every S and for the   *)
(* URI lists of the run; the add and the remove requests of a bucket are   *)
(* these slices for the batch size, in order, all of them once the call    *)
(* has returned.                                                           *)
C9_Chunked ==
    /\ \A seq \in UriLists : \A size \in 1..(MaxItems + 1) : ChunkedRight(seq, size)
    /\ \A i \in 1..Len(buckets) : \A op \in {"add", "remove"} :
          LET uris == Uris(buckets[i].tracks)
              sent == UrisOf(Sent(log, Len(log), op, buckets[i].key))
          IN /\ Len(sent) <= Ceil(Len(uris), TrackBatch)
             /\ \A k \in 1..Len(sent) :
                   /\ Len(sent[k]) <= TrackBatch
                   /\ sent[k] = SubSeq(uris, (k - 1) * TrackBatch + 1,
                                       Min(k * TrackBatch, Len(uris)))
             /\ Returned(op, i) =>
                   Len(sent) = Ceil(Len(uris), TrackBatch) /\ Flatten(sent) = uris

\* A bucket longer than a batch has been added in two requests and removed in two.
C9_Witness ==
    /\ pc = "describe_dest"
    /\ Len(CurUris) > TrackBatch
    /\ Len(Sent(log, Len(log), "add", CurKey)) = 2
    /\ Len(Sent(log, Len(log), "remove", CurKey)) = 2

----------------------------------------------------------------------------
(* C10: in a rerun, no enumerated item carries a URI the first run added   *)
(* and then removed; a junk drawer the first run created is not created    *)
(* again and is the one the rerun adds to, the playlists the first run     *)
(* left are still there and no two playlists of the user share a name; a   *)
(* rerun that is done leaves no eligible entry in the source.              *)
C10_RerunSkipsMoved ==
    (rerun /\ Started) =>
       /\ UriSet(seen) \cap MovedBy(prev[1].log) = {}
       /\ Range(Uris(candidates)) \cap MovedBy(prev[1].log) = {}
       /\ \A e \in Range(prev[1].log) :
             e.op = "create" =>
                /\ \A f \in Range(log) : f.op = "create" => f.key # e.key
                /\ \A f \in Range(log) : (f.op = "add" /\ f.key = e.key) => f.pl = e.pl
       /\ \A p, q \in 1..Len(playlists) :
             (playlists[p].owner = Me /\ playlists[q].owner = Me
                 /\ playlists[p].name = playlists[q].name) => p = q
       /\ \A p \in 1..Len(prev[1].playlists) :
             playlists[p].name = prev[1].playlists[p].name
                /\ playlists[p].owner = prev[1].playlists[p].owner
       /\ pc = "done" =>
             \A it \in Range(SourceNow.tracks) : ~(HasBoth(it) /\ DateOnOrBefore(it))

\* The first run was aborted after it had moved a bucket; the rerun has added
\* to a junk drawer the first run created and is done.
C10_Witness ==
    /\ rerun
    /\ pc = "done"
    /\ prev[1].pc = "aborted"
    /\ MovedBy(prev[1].log) # {}
    /\ \E e \in Range(prev[1].log), f \in Range(log) :
          e.op = "create" /\ f.op = "add" /\ f.pl = e.pl

----------------------------------------------------------------------------
(* C13, as claimed: the entries of the source whose added date is after    *)
(* the cutoff are all still in the source, in every state of the run and   *)
(* so when it ends.                                                        *)
C13_YoungEntriesStay ==
    Started =>
       SelectSeq(SourceNow.tracks, AddedAfterCutoff)
          = SelectSeq(SourceThen.tracks, AddedAfterCutoff)

----------------------------------------------------------------------------
(* C12: every request that precedes a page request of the source is the    *)
(* token, profile or listing request or an earlier page request, so no     *)
(* creating, adding, removing or describing request comes before the last  *)
(* page; while the pages are fetched the playlists are as they were when   *)
(* the run started, the page offsets are 0, one page, two pages, ..., and  *)
(* the items yielded are a prefix of the source as it was, all of it, each *)
(* item once and in order, when the enumeration is over.                   *)
C12_EnumerationBeforeMutation ==
    Started =>
       /\ \A j \in 1..Len(log) :
             log[j].op = "items" =>
                \A i \in 1..(j - 1) : log[i].op \in {"token", "me", "list", "items"}
       /\ LET pages == SelectSeq(log, LAMBDA e : e.op = "items")
          IN \A k \in 1..Len(pages) : pages[k].n = (k - 1) * ItemPage
       /\ pc = "enumerate" => playlists = pl0
       /\ Len(seen) <= Len(SourceThen.tracks)
       /\ seen = SubSeq(SourceThen.tracks, 1, Len(seen))
       /\ EnumerationOver => seen = SourceThen.tracks
       /\ (\E e \in Range(log) : e.op \in Mutating) => seen = SourceThen.tracks

\* The source took two pages, and the run has removed from it since.
C12_Witness ==
    /\ Started
    /\ \E e \in Range(log) : e.op = "items" /\ e.n = ItemPage
    /\ \E e \in Range(log) : e.op = "remove"
    /\ Len(SourceNow.tracks) < Len(SourceThen.tracks)
    /\ Len(seen) > ItemPage

----------------------------------------------------------------------------
(* C11: with concurrent callers nothing stands between a caller's lookup   *)
(* and its creation: every caller that reached the creation has added a    *)
(* playlist of its name, whatever the other caller created meanwhile, so   *)
(* the user's playlists of a name are those that existed before plus one   *)
(* per caller that created; a caller that returned holds a playlist of its *)
(* name, and a caller past its lookup without creating found one.          *)
C11_NoLockBetweenFindAndCreate ==
    /\ \A k \in RaceKeys :
          Cardinality(Named(playlists, k))
             = Cardinality(Named(pl0, k))
                  + Cardinality({c \in DOMAIN callers :
                                    callers[c].key = k /\ callers[c].created})
    /\ \A c \in DOMAIN callers :
          callers[c].phase = "returned" =>
             callers[c].id \in Named(playlists, callers[c].key)
    /\ \A c \in DOMAIN callers :
          callers[c].phase = "create" =>
             \A p \in Named(playlists, callers[c].key) : p > Len(pl0)

\* Both callers looked up the same name, found nothing, created and returned:
\* the user has two playlists of that name.
C11_Witness ==
    /\ DOMAIN callers = CallerIds
    /\ \A c \in CallerIds : callers[c].phase = "returned" /\ callers[c].created
    /\ callers["first"].key = callers["second"].key
    /\ callers["first"].id # callers["second"].id
    /\ Cardinality(Named(playlists, callers["first"].key)) = 2

====
